---- MODULE Spec2Model ----
(***************************************************************************)
(* Model of DynamicGraphTextualModel (src/dgtm.py): the RGL text graph,    *)
(* the token registry, ingest (convert_raw_data / maintain_graph), merge   *)
(* (_update_text), validation, deduplicate-and-prune (_optimize_text) and  *)
(* persistence (save_model / load_model).                                  *)
(*                                                                         *)
(* Text is modelled structurally.  A record of the graph text              *)
(*     MAIN:SUB>VAR(pPROB,COND)                                            *)
(* is a record [main, sub, variable, prob, condition]; the tokens are the  *)
(* natural numbers whose decimal digits the text holds, and PROB is the    *)
(* decimal string described by [neg, h, d]: sign, magnitude in hundredths  *)
(* and number of decimals printed ("0.9" = [FALSE,90,1], "0.90" =          *)
(* [FALSE,90,2], "-0.5" = [TRUE,50,1]), with the number of its '.' (one in *)
(* every text the program prints).  Two records are byte-identical         *)
(* exactly when the two TLA+ records are equal.  The graph text is the     *)
(* sequence of its non-empty records ("" is the empty sequence); the       *)
(* separator that convert_raw_data leaves after the last record when       *)
(* validation raises is not represented.                                   *)
(***************************************************************************)
EXTENDS Integers, Sequences, FiniteSets, TLC

VARIABLES
    extractor,           \* which relation extractor the instance was built with
    text_graph,          \* self.text_graph
    token_dict,          \* self.token_dict          (term  -> token)
    reverse_token_dict,  \* self.reverse_token_dict  (token -> term)
    next_token_id,       \* self.next_token_id
    file,                \* the file save_model writes: << >> or << document >>
    call,                \* observation of the last completed call
    nops,                \* number of calls made so far
    threads              \* the request handlers in progress (src/app.py):
                         \* position and local variables of each

vars == <<extractor, text_graph, token_dict, reverse_token_dict,
          next_token_id, file, call, nops, threads>>

(***************************************************************************)
(* Bounds                                                                  *)
(***************************************************************************)
\* self.max_edges_per_node: an instance attribute (10 by default), scaled down
max_edges_per_node == 2
\* number of calls in one behaviour
MaxOps == 3

(***************************************************************************)
(* Decimal text of probabilities and float arithmetic                      *)
(***************************************************************************)
RECURSIVE Pow10(_)
Pow10(k) == IF k = 0 THEN 1 ELSE 10 * Pow10(k - 1)

Abs(x) == IF x < 0 THEN -x ELSE x

\* the probability strings used by the extractors
Txt(neg, h, d) == [neg |-> neg, h |-> h, d |-> d, dots |-> 1]

\* a text of digits and several '.', such as "1.2.3" (h holds its digits):
\* [\d.]+ accepts it, float() does not
Dotted(h) == [neg |-> FALSE, h |-> h, d |-> 1, dots |-> 2]

\* float(text) returns: it raises ValueError otherwise
IsFloat(t) == t.dots <= 1

\* float(text): the value, in hundredths
ParseFloat(t) == IF t.neg THEN -(t.h) ELSE t.h

\* f"{prob}" of a float holding x hundredths: shortest decimal that round-trips
Repr(x) == Txt(x < 0, Abs(x), IF Abs(x) % 10 = 0 THEN 1 ELSE 2)

\* a float as an exact decimal n / 10^e  (e >= 2)
Dec(n, e) == [n |-> n, e |-> e]
FromHundredths(x) == Dec(x, 2)

\* old_prob * 0.7 + new_prob * 0.3, old_prob given in hundredths
Blend(old, new) == Dec(7 * old * Pow10(new.e - 2) + 3 * new.n, new.e + 1)

\* f"{x:.2f}": the nearest hundredth.  A decimal that lies exactly half way
\* between two hundredths has no exact binary float, and the float that
\* stands for it may fall on either side: both outcomes are admitted.
Fmt2(x) ==
    LET s == Pow10(x.e - 2)
        q == x.n \div s
        r == x.n % s
        hs == IF 2 * r < s THEN {q}
              ELSE IF 2 * r > s THEN {q + 1}
              ELSE {q, q + 1}
    IN  { Txt(x.n < 0, Abs(k), 2) : k \in hs }

(***************************************************************************)
(* Records of the graph text                                               *)
(***************************************************************************)
Stmt(m, s, v, p, c) ==
    [main |-> m, sub |-> s, variable |-> v, prob |-> p, condition |-> c]

\* re.match(r"(\d+):(\d+)>(\d+)\(p([\d.]+),(\d+)\)", stmt): the tokens are
\* digit strings by construction; [\d.]+ rejects a sign
Matches(st) == ~st.prob.neg

Key(st) == <<st.main, st.sub, st.variable>>

RECURSIVE NumDigits(_)
NumDigits(n) == IF n < 10 THEN 1 ELSE 1 + NumDigits(n \div 10)

\* the digits of a are the last digits of b
IsSuffixDigits(a, b) == b % Pow10(NumDigits(a)) = a
\* the digits of a are the first digits of b
IsPrefixDigits(a, b) == \E j \in 0..NumDigits(b) : b \div Pow10(j) = a

\* mutant: the condition token takes part in the match
KeyInMutCondition(st, new) ==
    /\ IsSuffixDigits(st.main, new.main)
    /\ st.sub = new.sub
    /\ IsPrefixDigits(st.variable, new.variable)
    /\ st.condition = new.condition

\* f"{main_node}:{sub_node}>{variable}" in new_statement: a substring test.
\* new_statement holds one ':' and one '>', so the text "m:s>v" occurs in
\* "M:S>V(p..." exactly when m ends M, s is S and v begins V.
KeyIn(st, new) ==
    /\ IsSuffixDigits(st.main, new.main)
    /\ st.sub = new.sub
    /\ IsPrefixDigits(st.variable, new.variable)

(***************************************************************************)
(* Token registry                                                          *)
(***************************************************************************)
Registry(td, rtd, next) == [td |-> td, rtd |-> rtd, next |-> next]

\* mutant: a token is allocated for a term that already has one
_get_tokenMutRealloc(reg, term) ==
    Registry((term :> reg.next) @@ reg.td,
             (reg.next :> term) @@ reg.rtd,
             reg.next + 1)

\* _get_token: intern one term
_get_token(reg, term) ==
    IF term \notin DOMAIN reg.td
    THEN Registry((term :> reg.next) @@ reg.td,
                  (reg.next :> term) @@ reg.rtd,
                  reg.next + 1)
    ELSE reg

\* the four _get_token calls made for one relation, in the order of the code
InternRelation(reg, rel) ==
    _get_token(_get_token(_get_token(_get_token(reg,
        rel.meaning), rel.sub_meaning), rel.variable), rel.condition)

(***************************************************************************)
(* Relation extractors                                                     *)
(***************************************************************************)
Relation(m, s, v, p, c) ==
    [meaning |-> m, sub_meaning |-> s, variable |-> v,
     probability |-> p, condition |-> c]

\* A raw text is the set of the keywords that occur in its lower-cased form.
RawTexts ==
    { {}, {"justica"}, {"crise"}, {"justica", "crise"}, {"temperatura"},
      {"justica", "crise", "temperatura"}, {"2025"} }

\* _extract_relations: the simulated extractor of the source
_extract_relations(raw_data) ==
    (IF "justica" \in raw_data
     THEN << Relation("justica", "justica distributiva", "necessidade",
                      Txt(FALSE, 90, 1), "crise"),
             Relation("justica", "justica retributiva", "punicao",
                      Txt(FALSE, 70, 1), "crime") >>
     ELSE << >>)
    \o (IF "crise" \in raw_data
        THEN << Relation("economia", "crise economica", "auxilio",
                         Txt(FALSE, 95, 2), "2025") >>
        ELSE << >>)
    \o (IF "temperatura" \in raw_data
        THEN << Relation("ambiente", "temperatura", "conforto",
                         Txt(FALSE, 80, 1), "verao") >>
        ELSE << >>)

\* The extractor is a replaceable collaborator ("em producao: usar Grok ou
\* transformer treinado").  The replacements modelled keep the shape of
\* _extract_relations, a relation appended for each keyword found in the
\* text, in a fixed order, with other vocabularies.
Rule(kw, rel) == [kw |-> kw, rel |-> rel]

RECURSIVE ExtractWith(_, _)
ExtractWith(rules, raw_data) ==
    IF rules = << >> THEN << >>
    ELSE (IF Head(rules).kw \in raw_data THEN << Head(rules).rel >> ELSE << >>)
         \o ExtractWith(Tail(rules), raw_data)

\*   merge:  one key with several probabilities and conditions
MergeRules ==
    << Rule("k1", Relation("A", "S1", "V", Txt(FALSE, 50, 1), "C1")),
       Rule("k2", Relation("A", "S1", "V", Txt(FALSE, 90, 1), "C2")),
       Rule("k3", Relation("A", "S1", "V", Txt(FALSE, 150, 1), "C1")) >>
\*   range:  probabilities outside [0, 1], on two nodes
RangeRules ==
    << Rule("k1", Relation("A", "S1", "V", Txt(FALSE, 50, 1), "C1")),
       Rule("k2", Relation("A", "S1", "V", Txt(TRUE, 50, 1), "C1")),
       Rule("k3", Relation("B", "S2", "V", Txt(FALSE, 150, 1), "C2")) >>
\*   fanout: one node with more keys than max_edges_per_node, equal weights
FanoutRules ==
    << Rule("k1", Relation("A", "S1", "V", Txt(FALSE, 50, 1), "C1")),
       Rule("k2", Relation("A", "S2", "V", Txt(FALSE, 90, 2), "C1")),
       Rule("k3", Relation("A", "S3", "V", Txt(FALSE, 50, 1), "C2")) >>
\*   nodes:  two nodes
NodesRules ==
    << Rule("k1", Relation("A", "S1", "V", Txt(FALSE, 50, 1), "C1")),
       Rule("k2", Relation("B", "S1", "V", Txt(FALSE, 30, 1), "C1")),
       Rule("k3", Relation("A", "S2", "V", Txt(FALSE, 90, 1), "C1")) >>
\*   wide:   enough terms for a two-digit token
WideRules ==
    << Rule("k1", Relation("A", "S1", "V", Txt(FALSE, 50, 1), "C1")),
       Rule("k2", Relation("F1", "F2", "F3", Txt(FALSE, 50, 1), "F4")),
       Rule("k3", Relation("F5", "F6", "V", Txt(FALSE, 50, 1), "C1")),
       Rule("k4", Relation("B", "S1", "V", Txt(FALSE, 90, 1), "C1")) >>

Extractors == {"simulated", "merge", "range", "fanout", "nodes", "wide"}

RulesOf(ex) ==
    CASE ex = "merge" -> MergeRules
      [] ex = "range" -> RangeRules
      [] ex = "fanout" -> FanoutRules
      [] ex = "nodes" -> NodesRules
      [] ex = "wide" -> WideRules

\* the list of relations the extractor yields for a raw text
Extract(ex, raw_data) ==
    IF ex = "simulated" THEN _extract_relations(raw_data)
    ELSE ExtractWith(RulesOf(ex), raw_data)

\* the raw texts tried with an extractor: for a replacement, the text without
\* any keyword and the texts that hold "2025" and some of its keywords
RawTextsOf(ex) ==
    IF ex = "simulated" THEN RawTexts
    ELSE { {} } \cup
         { {"2025"} \cup { RulesOf(ex)[i].kw : i \in I } :
               I \in SUBSET (1..Len(RulesOf(ex))) }

\* mutant: every text is taken for an update
_needs_updateMutAlways(new_data) == TRUE

\* _needs_update
_needs_update(new_data) ==
    new_data \cap {"crise", "2025", "auxilio", "temperatura"} # {}

(***************************************************************************)
(* _update_text                                                            *)
(***************************************************************************)
\* the loop of _update_text from index i on; new_prob is reassigned by every
\* match and carried to the next one.  The result is the set of the texts
\* the call may return (one, unless a blend falls half way, see Fmt2): none
\* when float(old_prob) raises ValueError, which it does for the first
\* record that matches the pattern and is not the text of a float.
\* mutant: the new statement is appended without a look at the keys
UpdateLoopMutAppends(statements, i, new_statement, new_prob, updated) ==
    { Append(statements, new_statement) }

RECURSIVE UpdateLoop(_, _, _, _, _)
UpdateLoop(statements, i, new_statement, new_prob, updated) ==
    IF i > Len(statements)
    THEN { IF updated THEN statements
           ELSE Append(statements, new_statement) }
    ELSE LET st == statements[i] IN
         IF Matches(st) /\ ~IsFloat(st.prob) THEN {}
         ELSE IF Matches(st) /\ KeyIn(st, new_statement)
         THEN LET b == Blend(ParseFloat(st.prob), new_prob) IN
              UNION { UpdateLoop(
                        [statements EXCEPT ![i] =
                            Stmt(st.main, st.sub, st.variable, t, st.condition)],
                        i + 1, new_statement, b, TRUE) : t \in Fmt2(b) }
         ELSE UpdateLoop(statements, i + 1, new_statement, new_prob, updated)

\* new_prob in hundredths
_update_text(graph, new_statement, new_prob) ==
    UpdateLoop(graph, 1, new_statement, FromHundredths(new_prob), FALSE)

(***************************************************************************)
(* _validate_assertiveness                                                 *)
(***************************************************************************)
ProbInvalid(x) == x < 0 \/ x > 100

\* mutant: a node over the limit is an error too
_validate_assertivenessMutFanout(graph) ==
    \E i \in 1..Len(graph) :
        /\ Matches(graph[i])
        /\ \/ ~IsFloat(graph[i].prob)
           \/ ProbInvalid(ParseFloat(graph[i].prob))
           \/ Cardinality({ j \in 1..Len(graph) :
                               /\ Matches(graph[j])
                               /\ graph[j].main = graph[i].main })
                 > max_edges_per_node

\* TRUE when the scan raises ValueError: float(prob) or the range test
_validate_assertiveness(graph) ==
    \E i \in 1..Len(graph) :
        /\ Matches(graph[i])
        /\ \/ ~IsFloat(graph[i].prob)
           \/ ProbInvalid(ParseFloat(graph[i].prob))

(***************************************************************************)
(* _optimize_text                                                          *)
(***************************************************************************)
\* mutant: repeated records are kept
DedupMutKeepsAll(s) == s

\* list(dict.fromkeys(...)): first occurrences, in order
RECURSIVE Dedup(_)
Dedup(s) ==
    IF s = << >> THEN << >>
    ELSE LET front == Dedup(SubSeq(s, 1, Len(s) - 1))
             last == s[Len(s)]
         IN  IF \E i \in 1..Len(front) : front[i] = last
             THEN front ELSE Append(front, last)

\* the keys of node_edges in insertion order
RECURSIVE NodeOrder(_)
NodeOrder(s) ==
    IF s = << >> THEN << >>
    ELSE LET front == NodeOrder(SubSeq(s, 1, Len(s) - 1))
             last == s[Len(s)]
         IN  IF ~Matches(last) \/ \E i \in 1..Len(front) : front[i] = last.main
             THEN front ELSE Append(front, last.main)

\* node_edges[node]
EdgesOf(node, s) ==
    SelectSeq(s, LAMBDA st : Matches(st) /\ st.main = node)

RemoveAt(s, i) == SubSeq(s, 1, i - 1) \o SubSeq(s, i + 1, Len(s))

\* mutant: the edges are left in insertion order
SortDescMutUnsorted(edges) == edges

\* edges.sort(key=float(prob), reverse=True): stable, descending
RECURSIVE SortDesc(_)
SortDesc(edges) ==
    IF edges = << >> THEN << >>
    ELSE LET i == CHOOSE i \in 1..Len(edges) :
                     /\ \A j \in 1..Len(edges) :
                            ParseFloat(edges[j].prob) <= ParseFloat(edges[i].prob)
                     /\ \A j \in 1..(i - 1) :
                            ParseFloat(edges[j].prob) < ParseFloat(edges[i].prob)
         IN  << edges[i] >> \o SortDesc(RemoveAt(edges, i))

\* mutant: the slice is missing
PrunedMutKeepsAll(edges) == edges

\* the edges one node keeps
Pruned(edges) ==
    IF Len(edges) > max_edges_per_node
    THEN SubSeq(SortDesc(edges), 1, max_edges_per_node)
    ELSE edges

RECURSIVE JoinNodes(_, _)
JoinNodes(nodes, s) ==
    IF nodes = << >> THEN << >>
    ELSE Pruned(EdgesOf(Head(nodes), s)) \o JoinNodes(Tail(nodes), s)

\* TRUE when edges.sort raises ValueError: the key float(...) is computed for
\* every edge of a node that has more than max_edges_per_node of them
SortRaises(statements) ==
    \E i \in 1..Len(statements) :
        /\ Matches(statements[i])
        /\ LET edges == EdgesOf(statements[i].main, statements)
           IN  /\ Len(edges) > max_edges_per_node
               /\ \E j \in 1..Len(edges) : ~IsFloat(edges[j].prob)

\* the text _optimize_text leaves in self.text_graph: when the sort raises,
\* the text of its first assignment
_optimize_text(graph) ==
    LET statements == Dedup(graph)
    IN  IF SortRaises(statements) THEN statements
        ELSE JoinNodes(NodeOrder(statements), statements)

(***************************************************************************)
(* The calls                                                               *)
(***************************************************************************)
Reg == Registry(token_dict, reverse_token_dict, next_token_id)

\* the record built from a relation's tokens and a probability text
Statement(reg, rel, p) ==
    Stmt(reg.td[rel.meaning], reg.td[rel.sub_meaning], reg.td[rel.variable],
         p, reg.td[rel.condition])

\* the loop of convert_raw_data: the probability string is copied as it is
RECURSIVE ConvertLoop(_, _, _, _)
ConvertLoop(reg, graph, relations, i) ==
    IF i > Len(relations) THEN [reg |-> reg, graph |-> graph]
    ELSE LET rel == relations[i]
             r2 == InternRelation(reg, rel)
         IN  ConvertLoop(r2, Append(graph, Statement(r2, rel, rel.probability)),
                         relations, i + 1)

\* the loop of maintain_graph: prob = float(...), printed back with f"{prob}".
\* When _update_text raises, the loop ends there: the terms of the relation
\* are interned and the graph is the one the relations before it left.
RECURSIVE MaintainLoop(_, _, _, _)
MaintainLoop(reg, graph, relations, i) ==
    IF i > Len(relations) THEN { [reg |-> reg, graph |-> graph] }
    ELSE LET rel == relations[i]
             r2 == InternRelation(reg, rel)
             prob == ParseFloat(rel.probability)
             new_statement == Statement(r2, rel, Repr(prob))
             texts == _update_text(graph, new_statement, prob)
         IN  IF texts = {} THEN { [reg |-> r2, graph |-> graph] }
             ELSE UNION { MaintainLoop(r2, g, relations, i + 1) :
                             g \in texts }

Observed(op, raw, relations, status, before, updated) ==
    [op |-> op, raw |-> raw, relations |-> relations, status |-> status,
     before |-> before, updated |-> updated]

\* the registry is written by the loop; the graph is written by the loop and,
\* unless validation raises, by _optimize_text
Finish(op, raw, relations, r) ==
    /\ token_dict' = r.reg.td
    /\ reverse_token_dict' = r.reg.rtd
    /\ next_token_id' = r.reg.next
    /\ IF _validate_assertiveness(r.graph)
       THEN /\ text_graph' = r.graph
            /\ call' = Observed(op, raw, relations, "ValueError",
                                text_graph, r.graph)
       ELSE /\ text_graph' = _optimize_text(r.graph)
            /\ call' = Observed(op, raw, relations, "ok",
                                text_graph, r.graph)

\* the state after __init__, for an instance built with extractor ex
Constructed(ex) ==
    /\ extractor = ex
    /\ text_graph = << >>
    /\ token_dict = << >>
    /\ reverse_token_dict = << >>
    /\ next_token_id = 1
    /\ file = << >>
    /\ call = Observed("init", {}, << >>, "ok", << >>, << >>)
    /\ nops = 0
    /\ threads = << >>

Init == \E ex \in Extractors \ {"wide"} : Constructed(ex)

\* an instance whose extractor has the wide vocabulary
InitWide == Constructed("wide")

\* convert_raw_data(raw_data)
convert_raw_data ==
    /\ nops < MaxOps
    /\ \E raw \in RawTextsOf(extractor) :
          LET relations == Extract(extractor, raw) IN
          Finish("convert_raw_data", raw, relations,
                 ConvertLoop(Reg, << >>, relations, 1))
    /\ nops' = nops + 1
    /\ UNCHANGED <<extractor, file, threads>>

\* maintain_graph(new_data)
maintain_graph ==
    /\ nops < MaxOps
    /\ \E raw \in RawTextsOf(extractor) :
          IF _needs_update(raw)
          THEN LET relations == Extract(extractor, raw) IN
               \E r \in MaintainLoop(Reg, text_graph, relations, 1) :
                  Finish("maintain_graph", raw, relations, r)
          ELSE /\ call' = Observed("maintain_graph", raw, << >>, "skipped",
                                   text_graph, text_graph)
               /\ UNCHANGED <<text_graph, token_dict, reverse_token_dict,
                              next_token_id>>
    /\ nops' = nops + 1
    /\ UNCHANGED <<extractor, file, threads>>

(***************************************************************************)
(* process_query                                                           *)
(***************************************************************************)
\* A string, where its characters matter, is the sequence of them.  The
\* terms of the extractors, spelled out (the terms of the simulated
\* extractor are written without their diacritics):
Spell(term) ==
    CASE term = "justica" ->
           <<"j", "u", "s", "t", "i", "c", "a">>
      [] term = "justica distributiva" ->
           <<"j", "u", "s", "t", "i", "c", "a", " ", "d", "i", "s", "t", "r", "i", "b", "u", "t", "i", "v", "a">>
      [] term = "necessidade" ->
           <<"n", "e", "c", "e", "s", "s", "i", "d", "a", "d", "e">>
      [] term = "crise" ->
           <<"c", "r", "i", "s", "e">>
      [] term = "justica retributiva" ->
           <<"j", "u", "s", "t", "i", "c", "a", " ", "r", "e", "t", "r", "i", "b", "u", "t", "i", "v", "a">>
      [] term = "punicao" ->
           <<"p", "u", "n", "i", "c", "a", "o">>
      [] term = "crime" ->
           <<"c", "r", "i", "m", "e">>
      [] term = "economia" ->
           <<"e", "c", "o", "n", "o", "m", "i", "a">>
      [] term = "crise economica" ->
           <<"c", "r", "i", "s", "e", " ", "e", "c", "o", "n", "o", "m", "i", "c", "a">>
      [] term = "auxilio" ->
           <<"a", "u", "x", "i", "l", "i", "o">>
      [] term = "2025" ->
           <<"2", "0", "2", "5">>
      [] term = "ambiente" ->
           <<"a", "m", "b", "i", "e", "n", "t", "e">>
      [] term = "temperatura" ->
           <<"t", "e", "m", "p", "e", "r", "a", "t", "u", "r", "a">>
      [] term = "conforto" ->
           <<"c", "o", "n", "f", "o", "r", "t", "o">>
      [] term = "verao" ->
           <<"v", "e", "r", "a", "o">>
      [] term = "A" ->
           <<"A">>
      [] term = "B" ->
           <<"B">>
      [] term = "V" ->
           <<"V">>
      [] term = "S1" ->
           <<"S", "1">>
      [] term = "S2" ->
           <<"S", "2">>
      [] term = "S3" ->
           <<"S", "3">>
      [] term = "S4" ->
           <<"S", "4">>
      [] term = "C1" ->
           <<"C", "1">>
      [] term = "C2" ->
           <<"C", "2">>
      [] term = "F1" ->
           <<"F", "1">>
      [] term = "F2" ->
           <<"F", "2">>
      [] term = "F3" ->
           <<"F", "3">>
      [] term = "F4" ->
           <<"F", "4">>
      [] term = "F5" ->
           <<"F", "5">>
      [] term = "F6" ->
           <<"F", "6">>

\* str(token): the decimal digits of a token
RECURSIVE Digits(_)
Digits(n) ==
    (IF n < 10 THEN << >> ELSE Digits(n \div 10))
    \o << CASE n % 10 = 0 -> "0" [] n % 10 = 1 -> "1" [] n % 10 = 2 -> "2"
            [] n % 10 = 3 -> "3" [] n % 10 = 4 -> "4" [] n % 10 = 5 -> "5"
            [] n % 10 = 6 -> "6" [] n % 10 = 7 -> "7" [] n % 10 = 8 -> "8"
            [] n % 10 = 9 -> "9" >>

\* str.lower(), on the characters that occur
LowerChar(c) ==
    CASE c = "A" -> "a"
      [] c = "B" -> "b"
      [] c = "C" -> "c"
      [] c = "F" -> "f"
      [] c = "S" -> "s"
      [] c = "V" -> "v"
      [] c = "J" -> "j"
      [] c = "U" -> "u"
      [] c = "R" -> "r"
      [] c = "I" -> "i"
      [] OTHER -> c

Lower(str) == [i \in 1..Len(str) |-> LowerChar(str[i])]

\* needle in hay
Contains(needle, hay) ==
    \E i \in 0..(Len(hay) - Len(needle)) :
        SubSeq(hay, i + 1, i + Len(needle)) = needle

\* _reverse_token: self.reverse_token_dict.get(token, token)
_reverse_token(rtd, token) ==
    IF token \in DOMAIN rtd THEN Spell(rtd[token]) ELSE Digits(token)

\* the test that appends a statement to relevant_relations
Relevant(rtd, st, query, context) ==
    /\ Matches(st)
    /\ \/ Contains(Lower(context), Lower(_reverse_token(rtd, st.condition)))
       \/ Contains(Lower(context), Lower(_reverse_token(rtd, st.main)))
    /\ Contains(Lower(query), Lower(_reverse_token(rtd, st.main)))

\* mutant: the recommendation names the sub-meaning, the explanation cites
\* the variable
AnswerMutSwapped(rtd, st) ==
    [found |-> TRUE,
     variable |-> _reverse_token(rtd, st.sub),
     sub_meaning |-> _reverse_token(rtd, st.variable),
     probability |-> Repr(ParseFloat(st.prob)),
     condition |-> _reverse_token(rtd, st.condition)]

\* the pair (result, explanation) built from a statement, by its parts
Answer(rtd, st) ==
    [found |-> TRUE,
     variable |-> _reverse_token(rtd, st.variable),
     sub_meaning |-> _reverse_token(rtd, st.sub),
     probability |-> Repr(ParseFloat(st.prob)),
     condition |-> _reverse_token(rtd, st.condition)]

\* ("Nenhuma recomendacao", "Nenhum ramo relevante encontrado")
NoAnswer ==
    [found |-> FALSE, variable |-> << >>, sub_meaning |-> << >>,
     probability |-> Repr(0), condition |-> << >>]

\* mutant: of equal probabilities the last one wins
TopMutLast(rels) ==
    CHOOSE i \in 1..Len(rels) :
        /\ \A j \in 1..Len(rels) :
               ParseFloat(rels[j].prob) <= ParseFloat(rels[i].prob)
        /\ \A j \in (i + 1)..Len(rels) :
               ParseFloat(rels[j].prob) < ParseFloat(rels[i].prob)

\* max(relevant_relations, key=probability): the first of the greatest
Top(rels) ==
    CHOOSE i \in 1..Len(rels) :
        /\ \A j \in 1..Len(rels) :
               ParseFloat(rels[j].prob) <= ParseFloat(rels[i].prob)
        /\ \A j \in 1..(i - 1) :
               ParseFloat(rels[j].prob) < ParseFloat(rels[i].prob)

\* TRUE when process_query raises ValueError: float(prob) is computed for
\* every statement it appends to relevant_relations
QueryRaises(graph, rtd, query, context) ==
    \E i \in 1..Len(graph) :
        Relevant(rtd, graph[i], query, context) /\ ~IsFloat(graph[i].prob)

\* what process_query returns on a graph and a reverse map
Reply(graph, rtd, query, context) ==
    LET relevant_relations ==
            SelectSeq(graph, LAMBDA st : Relevant(rtd, st, query, context))
    IN  IF relevant_relations # << >>
        THEN Answer(rtd, relevant_relations[Top(relevant_relations)])
        ELSE NoAnswer

\* the (query, context) pairs asked
Asked ==
    { << <<"a">>, << >> >>, << <<"a">>, <<"a">> >>,
      << <<"J", "u", "s">>, <<"C", "R", "I">> >>,
      << <<"b">>, <<"c", "1">> >>,
      << <<"2">>, << >> >>,
      << <<"j", "u", "s", "t", "i", "c", "a">>, <<"c", "r", "i", "s", "e">> >> }

\* process_query(query, context)
process_query ==
    /\ nops < MaxOps
    /\ \E qc \in Asked :
          LET raises == QueryRaises(text_graph, reverse_token_dict,
                                    qc[1], qc[2])
          IN  call' = [query |-> qc[1], context |-> qc[2],
                       answer |-> IF raises THEN NoAnswer
                                  ELSE Reply(text_graph, reverse_token_dict,
                                             qc[1], qc[2])]
                      @@ Observed("process_query", {}, << >>,
                                  IF raises THEN "ValueError" ELSE "ok",
                                  text_graph, text_graph)
    /\ nops' = nops + 1
    /\ UNCHANGED <<extractor, text_graph, token_dict, reverse_token_dict,
                   next_token_id, file, threads>>

(***************************************************************************)
(* Persistence                                                             *)
(***************************************************************************)
Fields == <<"text_graph", "token_dict", "reverse_token_dict", "next_token_id">>

\* json.dump of a dict: a JSON object, the set of its members (name, value)
Members(d) == { <<k, d[k]>> : k \in DOMAIN d }

\* json.load of a JSON object: the dict of its members
Dict(ms) == [k \in { m[1] : m \in ms } |-> (CHOOSE m \in ms : m[1] = k)[2]]

\* mutant: the counter is not written
DocumentMutNoCounter(g, td, rtd, next) ==
    [text_graph |-> g, token_dict |-> Members(td),
     reverse_token_dict |-> Members(rtd), next_token_id |-> 1]

\* the JSON document save_model writes
Document(g, td, rtd, next) ==
    [text_graph |-> g, token_dict |-> Members(td),
     reverse_token_dict |-> Members(rtd), next_token_id |-> next]

\* save_model(filepath)
save_model ==
    /\ nops < MaxOps
    /\ file' = << Document(text_graph, token_dict, reverse_token_dict,
                           next_token_id) >>
    /\ call' = Observed("save_model", {}, << >>, "ok", text_graph, text_graph)
    /\ nops' = nops + 1
    /\ UNCHANGED <<extractor, text_graph, token_dict, reverse_token_dict,
                   next_token_id, threads>>

\* what json.load may return for the file: the document that was written
\* or, the file being one any program can write, that document without
\* one of its fields
Readable(doc) ==
    { doc } \cup { [k \in DOMAIN doc \ {f} |-> doc[k]] : f \in DOMAIN doc }

\* mutant: data.get(field, default)
ReadFieldMutDefault(data, f) ==
    [raised |-> FALSE,
     value |-> IF f \in DOMAIN data THEN data[f]
               ELSE IF f = "text_graph" THEN << >>
               ELSE IF f = "next_token_id" THEN 1 ELSE {}]

\* data[field]: the value, or KeyError
ReadField(data, f) ==
    IF f \in DOMAIN data THEN [raised |-> FALSE, value |-> data[f]]
    ELSE [raised |-> TRUE, value |-> {}]

\* load_model(filepath): the four fields are read and assigned one after the
\* other; the first read that raises ends the call, after the assignments
\* before it.  stop = 5: no read raised.
load_model ==
    /\ nops < MaxOps
    /\ IF file = << >>
       THEN /\ call' = Observed("load_model", {}, << >>, "FileNotFoundError",
                                text_graph, text_graph)
            /\ UNCHANGED <<text_graph, token_dict, reverse_token_dict,
                           next_token_id>>
       ELSE \E data \in Readable(file[1]) :
            LET reads == [i \in 1..4 |-> ReadField(data, Fields[i])]
                stop == IF \E i \in 1..4 : reads[i].raised
                        THEN CHOOSE i \in 1..4 :
                                 /\ reads[i].raised
                                 /\ \A j \in 1..(i - 1) : ~reads[j].raised
                        ELSE 5
            IN
            /\ text_graph' = IF stop > 1 THEN reads[1].value ELSE text_graph
            /\ token_dict' =
                   IF stop > 2 THEN Dict(reads[2].value) ELSE token_dict
            /\ reverse_token_dict' =
                   IF stop > 3 THEN Dict(reads[3].value)
                   ELSE reverse_token_dict
            /\ next_token_id' =
                   IF stop > 4 THEN reads[4].value ELSE next_token_id
            /\ call' = Observed("load_model",
                                { Fields[k] : k \in 1..4 } \ DOMAIN data,
                                << >>, IF stop = 5 THEN "ok" ELSE "KeyError",
                                text_graph, text_graph)
    /\ nops' = nops + 1
    /\ UNCHANGED <<extractor, file, threads>>

Next ==
    \/ convert_raw_data
    \/ maintain_graph
    \/ process_query
    \/ save_model
    \/ load_model

Spec == Init /\ [][Next]_vars

SpecWide == InitWide /\ [][Next]_vars

\* a model, built with any of the extractors, that is only ever taught
\* through maintain_graph
InitAny == \E ex \in Extractors : Constructed(ex)

NextMaintain == maintain_graph

SpecMaintain == InitAny /\ [][NextMaintain]_vars

TypeOK ==
    /\ extractor \in Extractors
    /\ nops \in 0..MaxOps
    /\ next_token_id \in Nat \ {0}

(***************************************************************************)
(* The request handlers (src/app.py)                                       *)
(*                                                                         *)
(* The handlers run on the threads of the web server and share the one     *)
(* module-level model; nothing in app.py or dgtm.py takes a lock.  The     *)
(* interpreter the repository is compiled for (__pycache__, CPython 3.11)  *)
(* can switch threads at the entry of a function, after a call and at the  *)
(* end of a loop turn.  A handler is modelled in steps that each hold the  *)
(* reads and writes of the shared attributes between two such points.      *)
(* The model is the one built with the simulated extractor of the source.  *)
(***************************************************************************)
Teachers == {"teach1", "teach2"}

\* the bodies of the /teach requests, raw texts as sets of keywords: what
\* each handler may be sent.  The text with two relations is taught only
\* next to a query.
TeachTexts(h) ==
    IF h = "teach2" THEN { {"temperatura"} }
    ELSE { {"crise", "2025"}, {"new graph", "crise"}, {"justica"} }
         \cup (IF "query" \in DOMAIN threads
               THEN { {"new graph", "justica"} } ELSE {})

\* the texts taught, one call after the other, before the handlers modelled
BaseTexts == { {}, {"temperatura"} }

TeachIdle ==
    [pc |-> "idle", op |-> "", relations |-> << >>, i |-> 1, j |-> 1,
     toks |-> << >>, token |-> 0, local |-> << >>, made |-> << >>,
     status |-> "", old_rgl |-> << >>, new_rgl |-> << >>]

QueryIdle ==
    [pc |-> "idle", query |-> << >>, context |-> << >>, seen |-> << >>,
     k |-> 1, found |-> << >>, answer |-> NoAnswer]

\* the model as the calls of BaseTexts left it, and the handlers hs about
\* to start
Serving(teachers, askers) ==
    \E base \in BaseTexts :
       LET r == ConvertLoop(Registry(<< >>, << >>, 1), << >>,
                            _extract_relations(base), 1)
       IN  /\ extractor = "simulated"
           /\ text_graph = _optimize_text(r.graph)
           /\ token_dict = r.reg.td
           /\ reverse_token_dict = r.reg.rtd
           /\ next_token_id = r.reg.next
           /\ file = << >>
           /\ call = Observed("convert_raw_data", base,
                              _extract_relations(base), "ok",
                              << >>, r.graph)
           /\ nops = 1
           /\ threads = [h \in teachers \cup askers |->
                            IF h \in teachers THEN TeachIdle ELSE QueryIdle]

Shared == <<extractor, file, call, nops>>

\* rel["meaning"], rel["sub_meaning"], rel["variable"], rel["condition"]
TermAt(rel, j) ==
    CASE j = 1 -> rel.meaning
      [] j = 2 -> rel.sub_meaning
      [] j = 3 -> rel.variable
      [] j = 4 -> rel.condition

\* where the loop over the relations goes on from relation i
LoopFrom(th, i) ==
    [th EXCEPT !.i = i, !.j = 1, !.toks = << >>,
               !.pc = IF i > Len(th.relations) THEN "validate" ELSE "intern"]

\* the handler after the statement of relation i was written: made keeps
\* the (main, sub, variable) tokens of the statements the call has built
Built(th) ==
    LoopFrom([th EXCEPT !.made = Append(@, SubSeq(th.toks, 1, 3))], th.i + 1)

\* teach: old_rgl = dgtm.text_graph, the choice of the ingest, and
\* _needs_update and _extract_relations, which read no shared attribute
teach_begin(h) ==
    /\ threads[h].pc = "idle"
    /\ \E data \in TeachTexts(h) :
          LET th == [threads[h] EXCEPT !.old_rgl = text_graph] IN
          threads' = [threads EXCEPT ![h] =
             IF "new graph" \in data
             THEN [th EXCEPT !.op = "convert_raw_data", !.pc = "clear",
                             !.relations = _extract_relations(data)]
             ELSE IF _needs_update(data)
             THEN LoopFrom([th EXCEPT !.op = "maintain_graph",
                               !.relations = _extract_relations(data)], 1)
             ELSE [th EXCEPT !.op = "maintain_graph", !.pc = "save"]]
    /\ UNCHANGED <<text_graph, token_dict, reverse_token_dict, next_token_id,
                   Shared>>

\* convert_raw_data: self.text_graph = ""
teach_clear(h) ==
    /\ threads[h].pc = "clear"
    /\ text_graph' = << >>
    /\ threads' = [threads EXCEPT ![h] = LoopFrom(@, 1)]
    /\ UNCHANGED <<token_dict, reverse_token_dict, next_token_id, Shared>>

\* the handler after _get_token returned token for term j of relation i
Returned(th, token) ==
    IF th.j < 4
    THEN [th EXCEPT !.toks = Append(@, token), !.token = 0, !.j = th.j + 1,
                    !.pc = "intern"]
    ELSE [th EXCEPT !.toks = Append(@, token), !.token = 0,
                    !.pc = IF th.op = "convert_raw_data"
                           THEN "cv_append" ELSE "ut_read"]

\* _get_token, from its entry: a known term is returned its token; for an
\* unknown one the counter is read, up to the return of str(...)
teach_get_token(h) ==
    LET th == threads[h]
        term == TermAt(th.relations[th.i], th.j)
    IN
    /\ th.pc = "intern"
    /\ threads' = [threads EXCEPT ![h] =
          IF term \notin DOMAIN token_dict
          THEN [th EXCEPT !.token = next_token_id, !.pc = "alloc"]
          ELSE Returned(th, token_dict[term])]
    /\ UNCHANGED <<text_graph, token_dict, reverse_token_dict, next_token_id,
                   Shared>>

\* _get_token, after str(...): the two maps are written with the token
\* that was read, the counter is incremented, self.token_dict[term] is
\* returned
teach_alloc(h) ==
    LET th == threads[h]
        term == TermAt(th.relations[th.i], th.j)
    IN
    /\ th.pc = "alloc"
    /\ token_dict' = (term :> th.token) @@ token_dict
    /\ reverse_token_dict' = (th.token :> term) @@ reverse_token_dict
    /\ next_token_id' = next_token_id + 1
    /\ threads' = [threads EXCEPT ![h] = Returned(th, th.token)]
    /\ UNCHANGED <<text_graph, Shared>>

\* convert_raw_data: self.text_graph += statement + ";"
teach_cv_append(h) ==
    LET th == threads[h]
        rel == th.relations[th.i]
    IN
    /\ th.pc = "cv_append"
    /\ text_graph' = Append(text_graph,
          Stmt(th.toks[1], th.toks[2], th.toks[3], rel.probability,
               th.toks[4]))
    /\ threads' = [threads EXCEPT ![h] = Built(th)]
    /\ UNCHANGED <<token_dict, reverse_token_dict, next_token_id, Shared>>

\* _update_text: statements = self.text_graph.split(";")
teach_ut_read(h) ==
    /\ threads[h].pc = "ut_read"
    /\ threads' = [threads EXCEPT ![h].local = text_graph,
                                  ![h].pc = "ut_write"]
    /\ UNCHANGED <<text_graph, token_dict, reverse_token_dict, next_token_id,
                   Shared>>

\* maintain_graph: self.text_graph = self._update_text(new_statement, prob)
teach_ut_write(h) ==
    LET th == threads[h]
        rel == th.relations[th.i]
        prob == ParseFloat(rel.probability)
        new_statement == Stmt(th.toks[1], th.toks[2], th.toks[3], Repr(prob),
                              th.toks[4])
    IN
    /\ th.pc = "ut_write"
    /\ text_graph' \in _update_text(th.local, new_statement, prob)
    /\ threads' = [threads EXCEPT ![h] = Built([th EXCEPT !.local = << >>])]
    /\ UNCHANGED <<token_dict, reverse_token_dict, next_token_id, Shared>>

\* _validate_assertiveness, on the text it reads; the exception ends the
\* request
teach_validate(h) ==
    /\ threads[h].pc = "validate"
    /\ threads' = [threads EXCEPT ![h] =
          IF _validate_assertiveness(text_graph)
          THEN [@ EXCEPT !.pc = "done", !.status = "ValueError",
                         !.new_rgl = text_graph]
          ELSE [@ EXCEPT !.pc = "opt_read"]]
    /\ UNCHANGED <<text_graph, token_dict, reverse_token_dict, next_token_id,
                   Shared>>

\* _optimize_text: statements = list(dict.fromkeys(self.text_graph.split(";")))
teach_opt_read(h) ==
    /\ threads[h].pc = "opt_read"
    /\ threads' = [threads EXCEPT ![h].local = Dedup(text_graph),
                                  ![h].pc = "opt_write1"]
    /\ UNCHANGED <<text_graph, token_dict, reverse_token_dict, next_token_id,
                   Shared>>

\* _optimize_text: self.text_graph = ";".join(s for s in statements if s)
teach_opt_write1(h) ==
    /\ threads[h].pc = "opt_write1"
    /\ text_graph' = threads[h].local
    /\ threads' = [threads EXCEPT ![h].pc = "opt_write2"]
    /\ UNCHANGED <<token_dict, reverse_token_dict, next_token_id, Shared>>

\* _optimize_text: self.text_graph = ";".join(... node_edges.values() ...)
teach_opt_write2(h) ==
    LET statements == threads[h].local IN
    /\ threads[h].pc = "opt_write2"
    /\ text_graph' = JoinNodes(NodeOrder(statements), statements)
    /\ threads' = [threads EXCEPT ![h].local = << >>, ![h].pc = "save"]
    /\ UNCHANGED <<token_dict, reverse_token_dict, next_token_id, Shared>>

\* teach: dgtm.save_model(), called without the filepath it requires:
\* TypeError ends the request; nothing is written
teach_save(h) ==
    /\ threads[h].pc = "save"
    /\ threads' = [threads EXCEPT ![h].pc = "done", ![h].status = "TypeError",
                                  ![h].new_rgl = text_graph]
    /\ UNCHANGED <<text_graph, token_dict, reverse_token_dict, next_token_id,
                   Shared>>

teach(h) ==
    \/ teach_begin(h)
    \/ teach_clear(h)
    \/ teach_get_token(h)
    \/ teach_alloc(h)
    \/ teach_cv_append(h)
    \/ teach_ut_read(h)
    \/ teach_ut_write(h)
    \/ teach_validate(h)
    \/ teach_opt_read(h)
    \/ teach_opt_write1(h)
    \/ teach_opt_write2(h)
    \/ teach_save(h)

\* query -> process_query: for statement in self.text_graph.split(";")
query_read ==
    /\ threads["query"].pc = "idle"
    /\ \E qc \in Asked :
          threads' = [threads EXCEPT !["query"] =
             [@ EXCEPT !.query = qc[1], !.context = qc[2],
                       !.seen = text_graph, !.k = 1, !.pc = "scan"]]
    /\ UNCHANGED <<text_graph, token_dict, reverse_token_dict, next_token_id,
                   Shared>>

\* process_query: one turn of the loop, the tokens of the statement
\* resolved through self.reverse_token_dict
query_scan ==
    LET q == threads["query"] IN
    /\ q.pc = "scan"
    /\ q.k <= Len(q.seen)
    /\ threads' = [threads EXCEPT !["query"] =
          [q EXCEPT !.k = q.k + 1,
                    !.found =
                       IF Relevant(reverse_token_dict, q.seen[q.k],
                                   q.query, q.context)
                       THEN Append(q.found,
                               [prob |-> q.seen[q.k].prob,
                                answer |-> Answer(reverse_token_dict,
                                                  q.seen[q.k])])
                       ELSE q.found]]
    /\ UNCHANGED <<text_graph, token_dict, reverse_token_dict, next_token_id,
                   Shared>>

\* process_query: the answer, after the loop
query_answer ==
    LET q == threads["query"] IN
    /\ q.pc = "scan"
    /\ q.k > Len(q.seen)
    /\ threads' = [threads EXCEPT !["query"] =
          [q EXCEPT !.pc = "done", !.found = << >>,
                    !.answer = IF q.found # << >>
                               THEN q.found[Top(q.found)].answer
                               ELSE NoAnswer]]
    /\ UNCHANGED <<text_graph, token_dict, reverse_token_dict, next_token_id,
                   Shared>>

\* two /teach requests in progress at once
InitTeach == Serving(Teachers, {})
NextTeach == \E h \in Teachers : teach(h)
SpecTeach == InitTeach /\ [][NextTeach]_vars

\* a /teach and a /query request in progress at once
InitServe == Serving({"teach1"}, {"query"})
NextServe ==
    \/ teach("teach1")
    \/ query_read
    \/ query_scan
    \/ query_answer
SpecServe == InitServe /\ [][NextServe]_vars

(***************************************************************************)
(* A model restored from a document                                        *)
(*                                                                         *)
(* load_model assigns the graph text and the registry of whatever document *)
(* the file holds, without a check.  The documents below carry the         *)
(* registry of a model that was taught "crise" and "temperatura" and a     *)
(* graph text over it: statements, repeated records, records of tokens the *)
(* registry does not know, and records the grammar does not describe.      *)
(* On the restored model the calls of the class run as before, and         *)
(* _validate_assertiveness and _optimize_text are also called on their     *)
(* own.                                                                    *)
(***************************************************************************)
LoadedRegistry ==
    ConvertLoop(Registry(<< >>, << >>, 1), << >>,
                _extract_relations({"crise", "temperatura"}), 1).reg

\* economia:crise economica>auxilio, and two more edges of economia
Eco1 == Stmt(1, 2, 3, Txt(FALSE, 95, 2), 4)
Eco2 == Stmt(1, 6, 3, Txt(FALSE, 50, 1), 4)
Eco3 == Stmt(1, 7, 3, Txt(FALSE, 50, 1), 8)
Eco4 == Stmt(1, 8, 3, Txt(FALSE, 95, 2), 8)
\* ambiente:temperatura>conforto
Amb1 == Stmt(5, 6, 7, Txt(FALSE, 80, 1), 8)
\* tokens without an entry in the registry
Unk1 == Stmt(21, 22, 23, Txt(FALSE, 50, 1), 24)
\* "1:2>3(p-0.5,4)": the pattern does not match
Signed1 == Stmt(1, 2, 3, Txt(TRUE, 50, 1), 4)
\* "1:2>3(p1.2.3,4)": the pattern matches, the probability is no float
Dotted1 == Stmt(1, 2, 3, Dotted(123), 4)
\* "5:6>7(p1.5,8)"
Over1 == Stmt(5, 6, 7, Txt(FALSE, 150, 1), 8)

LoadedTexts ==
    { << >>, << Eco1 >>, << Eco1, Amb1 >>, << Eco1, Amb1, Eco2 >>,
      << Eco1, Eco1, Amb1 >>, << Eco2, Eco1, Eco3 >>, << Unk1 >>,
      << Unk1, Eco1 >>, << Signed1, Amb1 >>, << Amb1, Signed1, Eco2 >>,
      << Eco2, Amb1, Eco1, Eco3, Eco2 >>, << Eco3, Eco1, Eco2, Eco4 >>,
      << Dotted1, Amb1 >>, << Dotted1, Eco2, Eco3 >>, << Over1, Eco1 >> }

\* the state after load_model of such a document
InitLoaded ==
    \E g \in LoadedTexts :
       /\ extractor = "simulated"
       /\ text_graph = g
       /\ token_dict = LoadedRegistry.td
       /\ reverse_token_dict = LoadedRegistry.rtd
       /\ next_token_id = LoadedRegistry.next
       /\ file = << Document(g, LoadedRegistry.td, LoadedRegistry.rtd,
                             LoadedRegistry.next) >>
       /\ call = Observed("load_model", {}, << >>, "ok", << >>, << >>)
       /\ nops = 1
       /\ threads = << >>

\* _validate_assertiveness(), called on its own
validate ==
    /\ nops < MaxOps
    /\ call' = Observed("_validate_assertiveness", {}, << >>,
                        IF _validate_assertiveness(text_graph)
                        THEN "ValueError" ELSE "ok",
                        text_graph, text_graph)
    /\ nops' = nops + 1
    /\ UNCHANGED <<extractor, text_graph, token_dict, reverse_token_dict,
                   next_token_id, file, threads>>

\* _optimize_text(), called on its own
optimize ==
    /\ nops < MaxOps
    /\ text_graph' = _optimize_text(text_graph)
    /\ call' = Observed("_optimize_text", {}, << >>,
                        IF SortRaises(Dedup(text_graph))
                        THEN "ValueError" ELSE "ok",
                        text_graph, text_graph)
    /\ nops' = nops + 1
    /\ UNCHANGED <<extractor, token_dict, reverse_token_dict, next_token_id,
                   file, threads>>

NextLoaded ==
    \/ Next
    \/ validate
    \/ optimize

SpecLoaded == InitLoaded /\ [][NextLoaded]_vars

(***************************************************************************)
(* Vocabulary of the properties                                            *)
(***************************************************************************)
IngestOps == {"convert_raw_data", "maintain_graph"}

\* the last call ran its ingest loop (it was not gated off by _needs_update)
Ingested == call.op \in IngestOps /\ call.status \in {"ok", "ValueError"}

\* the last call was maintain_graph with exactly one extracted relation
MaintainedOne ==
    /\ call.op = "maintain_graph"
    /\ call.status \in {"ok", "ValueError"}
    /\ Len(call.relations) = 1

\* the key of a relation, in tokens
RelKey(rel) ==
    << token_dict[rel.meaning], token_dict[rel.sub_meaning],
       token_dict[rel.variable] >>

InRange(x) == 0 <= x /\ x <= 100

\* number of records of s that belong to a node / carry a key
Fanout(node, s) == Cardinality({ i \in 1..Len(s) : s[i].main = node })
KeyCount(k, s) == Cardinality({ i \in 1..Len(s) : Key(s[i]) = k })

Nodes(s) == { s[i].main : i \in 1..Len(s) }

\* the well-formed, byte-distinct records _optimize_text starts from
Distinct(s) == SelectSeq(Dedup(s), Matches)

\* the index of a record in a sequence without repetitions (0 if absent)
IndexOf(st, s) ==
    IF \E i \in 1..Len(s) : s[i] = st
    THEN CHOOSE i \in 1..Len(s) : s[i] = st ELSE 0

(***************************************************************************)
(* C1  An ingest changes an existing statement only if that statement's    *)
(* (main, sub, variable) equals the key of the incoming relation; when no  *)
(* existing statement has that key, exactly one statement is added and     *)
(* every pre-existing statement keeps its probability and condition.       *)
(* Stated of the text _update_text returns for a one-relation ingest.      *)
(***************************************************************************)
C1_ChangesOnlyEqualKey ==
    MaintainedOne =>
        LET k == RelKey(call.relations[1])
            old == call.before
            new == call.updated
        IN  /\ Len(new) >= Len(old)
            /\ \A i \in 1..Len(old) :
                   new[i] # old[i] => Key(old[i]) = k
            /\ (\A i \in 1..Len(old) : Key(old[i]) # k) =>
                   /\ Len(new) = Len(old) + 1
                   /\ \A i \in 1..Len(old) :
                          /\ new[i].prob = old[i].prob
                          /\ new[i].condition = old[i].condition

(***************************************************************************)
(* C2  Ingesting a relation of probability q in [0,1] into a graph that    *)
(* holds a statement with the same key and probability p leaves that       *)
(* statement with p*0.7 + q*0.3 printed with two decimals, whatever else   *)
(* the graph holds.                                                        *)
(***************************************************************************)
C2_BlendedProbability ==
    (MaintainedOne /\ InRange(ParseFloat(call.relations[1].probability))) =>
        LET k == RelKey(call.relations[1])
            q == ParseFloat(call.relations[1].probability)
            old == call.before
            new == call.updated
        IN  \A i \in 1..Len(old) :
                (Matches(old[i]) /\ Key(old[i]) = k) =>
                    new[i].prob \in
                        Fmt2(Blend(ParseFloat(old[i].prob), FromHundredths(q)))

(***************************************************************************)
(* C3  After every completed ingest, which ends with the prune of          *)
(* _optimize_text, every main token has at most max_edges_per_node         *)
(* statements in the graph.                                                *)
(***************************************************************************)
C3_FanoutBounded ==
    (call.op \in IngestOps /\ call.status = "ok") =>
        \A node \in Nodes(text_graph) :
            Fanout(node, text_graph) <= max_edges_per_node

\* a maintain_graph that had to prune: a node went in with more distinct
\* statements than the limit and came out with exactly the limit
C3_Witness ==
    /\ call.op = "maintain_graph"
    /\ call.status = "ok"
    /\ \E node \in Nodes(text_graph) :
          /\ Len(EdgesOf(node, Distinct(call.updated))) > max_edges_per_node
          /\ Fanout(node, text_graph) = max_edges_per_node

C5_ProbabilityInRange ==
    \A i \in 1..Len(text_graph) : InRange(ParseFloat(text_graph[i].prob))

(***************************************************************************)
(* C6  Ingesting a relation whose probability is below 0 or above 1 always *)
(* ends the call with an error, whether its key is new or matches an       *)
(* existing statement.                                                     *)
(***************************************************************************)
C6_OutOfRangeRaises ==
    (/\ Ingested
     /\ \E i \in 1..Len(call.relations) :
            ~InRange(ParseFloat(call.relations[i].probability)))
    => call.status = "ValueError"

(***************************************************************************)
(* C7  When validation raises during convert_raw_data or maintain_graph,   *)
(* the graph text after the failed call is the graph text before it.       *)
(***************************************************************************)
C7_FailedIngestKeepsGraph ==
    (call.op \in IngestOps /\ call.status = "ValueError") =>
        text_graph = call.before

(***************************************************************************)
(* C8  After a completed one-relation ingest on a graph that needs no      *)
(* pruning, a merged statement is at the index it had, the pre-existing    *)
(* statements keep their relative order, and a statement with a new key is *)
(* the last of the sequence.                                               *)
(***************************************************************************)
NeedsNoPruning(s) ==
    /\ s = Distinct(s)
    /\ \A node \in Nodes(s) : Fanout(node, s) <= max_edges_per_node

C8_PositionsKept ==
    (/\ MaintainedOne
     /\ call.status = "ok"
     /\ NeedsNoPruning(call.before)
     /\ NeedsNoPruning(call.updated))
    => LET k == RelKey(call.relations[1])
           old == call.before
       IN  /\ \A i \in 1..Len(old) :
                  i <= Len(text_graph) /\ Key(text_graph[i]) = Key(old[i])
           /\ (\A i \in 1..Len(old) : Key(old[i]) # k) =>
                  /\ Len(text_graph) = Len(old) + 1
                  /\ Key(text_graph[Len(text_graph)]) = k

C10_MapsInverse ==
    /\ \A t \in DOMAIN token_dict :
          /\ token_dict[t] \in DOMAIN reverse_token_dict
          /\ reverse_token_dict[token_dict[t]] = t
    /\ \A k \in DOMAIN reverse_token_dict :
          /\ reverse_token_dict[k] \in DOMAIN token_dict
          /\ token_dict[reverse_token_dict[k]] = k

(***************************************************************************)
(* C11 Interning is stable and append-only.  In every step of an operation *)
(* that interns (the ingests; save_model interns nothing), a term that has *)
(* a token keeps it, the counter moves only by the number of terms that    *)
(* were unknown, the unknown terms receive the next unused tokens in the   *)
(* order in which they are interned, and no entry of either map is removed *)
(* or reassigned, also when convert_raw_data replaces the graph.           *)
(* load_model, which replaces the registry by the persisted one, is the    *)
(* subject of C12 to C15.                                                  *)
(***************************************************************************)
\* the terms of a list of relations, in the order _get_token is called
RECURSIVE TermsOf(_)
TermsOf(relations) ==
    IF relations = << >> THEN << >>
    ELSE << Head(relations).meaning, Head(relations).sub_meaning,
            Head(relations).variable, Head(relations).condition >>
         \o TermsOf(Tail(relations))

FirstAt(term, terms) ==
    CHOOSE i \in 1..Len(terms) :
        terms[i] = term /\ \A j \in 1..(i - 1) : terms[j] # term

\* a step that leaves the registry alone, or one that only adds to it
InternStep ==
    \/ UNCHANGED <<token_dict, reverse_token_dict, next_token_id>>
    \/ LET fresh == DOMAIN token_dict' \ DOMAIN token_dict
           terms == TermsOf(call'.relations)
       IN  /\ \A t \in DOMAIN token_dict :
                 t \in DOMAIN token_dict' /\ token_dict'[t] = token_dict[t]
           /\ \A k \in DOMAIN reverse_token_dict :
                 /\ k \in DOMAIN reverse_token_dict'
                 /\ reverse_token_dict'[k] = reverse_token_dict[k]
           /\ next_token_id' = next_token_id + Cardinality(fresh)
           /\ { token_dict'[t] : t \in fresh } =
                  next_token_id .. (next_token_id' - 1)
           /\ \A t \in fresh :
                 /\ \E i \in 1..Len(terms) : terms[i] = t
                 /\ reverse_token_dict'[token_dict'[t]] = t
           /\ \A t, u \in fresh :
                 FirstAt(t, terms) < FirstAt(u, terms) =>
                     token_dict'[t] < token_dict'[u]

Allocated ==
    DOMAIN reverse_token_dict \cup { token_dict[t] : t \in DOMAIN token_dict }

MaxOf(S) == IF S = {} THEN 0 ELSE CHOOSE m \in S : \A k \in S : k <= m

C12_CounterIsNextUnused ==
    /\ next_token_id = 1 + MaxOf(Allocated)
    /\ \A k \in Allocated : k < next_token_id

(***************************************************************************)
(* C13 Persistence round-trips.  For every state x reached, the document   *)
(* save_model writes for x decodes to the graph text, the forward map, the *)
(* reverse map and the counter of x (what load_model assigns in a fresh    *)
(* model, its assignments not depending on the attributes they replace);   *)
(* and after a load_model that read a whole document the model is in the   *)
(* state that document was written from, so that every query has the       *)
(* answer it has on the document.                                          *)
(***************************************************************************)
C13_SaveLoadRoundTrip ==
    LET doc == Document(text_graph, token_dict, reverse_token_dict,
                        next_token_id)
    IN  /\ ReadField(doc, "text_graph").value = text_graph
        /\ Dict(ReadField(doc, "token_dict").value) = token_dict
        /\ Dict(ReadField(doc, "reverse_token_dict").value)
               = reverse_token_dict
        /\ ReadField(doc, "next_token_id").value = next_token_id
        /\ (call.op = "load_model" /\ call.status = "ok") =>
               /\ file = << doc >>
               /\ \A qc \in Asked :
                      Reply(text_graph, reverse_token_dict, qc[1], qc[2])
                      = Reply(file[1].text_graph,
                              Dict(file[1].reverse_token_dict),
                              qc[1], qc[2])

\* a model loaded from the document of a state with a graph and a registry,
\* in which some query has an answer
C13_Witness ==
    /\ call.op = "load_model"
    /\ call.status = "ok"
    /\ Len(text_graph) >= 2
    /\ next_token_id > 1
    /\ Dict(file[1].token_dict) = token_dict
    /\ \E qc \in Asked :
          Reply(text_graph, reverse_token_dict, qc[1], qc[2]).found

(***************************************************************************)
(* C14 load_model ends with an error for every document that lacks one of  *)
(* the four fields, and the attribute of the missing field does not        *)
(* receive a default: it keeps the value it had.                           *)
(***************************************************************************)
C14_MissingFieldRejected ==
    [][(call'.op = "load_model" /\ call'.raw # {}) =>
          /\ call'.status = "KeyError"
          /\ "text_graph" \in call'.raw => text_graph' = text_graph
          /\ "token_dict" \in call'.raw => token_dict' = token_dict
          /\ "reverse_token_dict" \in call'.raw =>
                 reverse_token_dict' = reverse_token_dict
          /\ "next_token_id" \in call'.raw =>
                 next_token_id' = next_token_id]_vars

\* a load of a document that lacks the field read last, into a model whose
\* registry has grown since the document was written
C14_Witness ==
    /\ call.op = "load_model"
    /\ call.raw = {"next_token_id"}
    /\ call.status = "KeyError"
    /\ file # << >>
    /\ next_token_id # file[1].next_token_id

(***************************************************************************)
(* C15 A load that is rejected leaves no partially initialized state: the  *)
(* graph text, both token maps and the counter hold after the failed call  *)
(* the values they had before it.                                          *)
(***************************************************************************)
C15_FailedLoadKeepsState ==
    [][(call'.op = "load_model" /\ call'.status # "ok") =>
          UNCHANGED <<text_graph, token_dict, reverse_token_dict,
                      next_token_id>>]_vars

(***************************************************************************)
(* C20 process_query(query, context) considers exactly the statements      *)
(* whose resolved main term contains query and whose resolved condition    *)
(* or resolved main term contains context, both without regard to case;    *)
(* it answers from a candidate of maximum probability, the first of them   *)
(* in the statement sequence when several share the maximum, and finds     *)
(* nothing when there is no candidate.                                     *)
(***************************************************************************)
ResolvedLower(token) == Lower(_reverse_token(reverse_token_dict, token))

Candidates(query, context) ==
    { i \in 1..Len(text_graph) :
        /\ Matches(text_graph[i])
        /\ Contains(Lower(query), ResolvedLower(text_graph[i].main))
        /\ \/ Contains(Lower(context), ResolvedLower(text_graph[i].condition))
           \/ Contains(Lower(context), ResolvedLower(text_graph[i].main)) }

C20_AnswersFromFirstMaximum ==
    call.op = "process_query" =>
        LET cand == Candidates(call.query, call.context) IN
        IF cand = {} THEN ~call.answer.found
        ELSE \E i \in cand :
                /\ \A j \in cand : ParseFloat(text_graph[j].prob)
                                      <= ParseFloat(text_graph[i].prob)
                /\ \A j \in cand : j < i =>
                       ParseFloat(text_graph[j].prob)
                           < ParseFloat(text_graph[i].prob)
                /\ call.answer = Answer(reverse_token_dict, text_graph[i])

\* a query that occurs in the main term only when case is disregarded, with
\* a context found in the main term and not in the condition, for which two
\* candidates share the maximum: the answer is that of the first and
\* differs from that of the second
C20_Witness ==
    /\ call.op = "process_query"
    /\ LET cand == Candidates(call.query, call.context) IN
       \E i, j \in cand :
          /\ i < j
          /\ ~Contains(call.query,
                       _reverse_token(reverse_token_dict, text_graph[i].main))
          /\ ~Contains(Lower(call.context),
                       ResolvedLower(text_graph[i].condition))
          /\ ParseFloat(text_graph[i].prob) = ParseFloat(text_graph[j].prob)
          /\ \A k \in cand : ParseFloat(text_graph[k].prob)
                                <= ParseFloat(text_graph[i].prob)
          /\ call.answer = Answer(reverse_token_dict, text_graph[i])
          /\ call.answer # Answer(reverse_token_dict, text_graph[j])

(***************************************************************************)
(* Vocabulary of the properties of the handlers                            *)
(***************************************************************************)
\* the handler is between the start and the end of its ingest
Mutating(h) ==
    threads[h].pc \in {"clear", "intern", "alloc", "cv_append", "ut_read",
                       "ut_write", "validate", "opt_read", "opt_write1",
                       "opt_write2"}

Done(h) == threads[h].pc = "done"

\* the call ran its ingest to the end (the request then fails in save_model)
Completed(h) ==
    /\ Done(h)
    /\ threads[h].status = "TypeError"
    /\ threads[h].relations # << >>

TermSet(h) ==
    LET terms == TermsOf(threads[h].relations)
    IN  { terms[i] : i \in 1..Len(terms) }

(***************************************************************************)
(* C16 With several handlers running, at most one mutating operation is    *)
(* in progress at any time: in no reachable state are two teach calls both *)
(* between the start and the end of their mutation of the graph or the     *)
(* registry.                                                               *)
(***************************************************************************)
C16_OneMutationInFlight ==
    ~(Mutating("teach1") /\ Mutating("teach2"))

(***************************************************************************)
(* C17 Under every interleaving of two teach calls that intern different   *)
(* new terms, the terms receive different tokens, the reverse map holds    *)
(* the entry of each of them, and the counter ends above their tokens.     *)
(***************************************************************************)
C17_NoDuplicateToken ==
    (/\ Completed("teach1") /\ Completed("teach2")
     /\ TermSet("teach1") \cap TermSet("teach2") = {})
    => \A a \in TermSet("teach1") \cup TermSet("teach2") :
          /\ \A b \in TermSet("teach1") \cup TermSet("teach2") :
                 a # b => token_dict[a] # token_dict[b]
          /\ token_dict[a] \in DOMAIN reverse_token_dict
          /\ reverse_token_dict[token_dict[a]] = a
          /\ token_dict[a] < next_token_id

(***************************************************************************)
(* C18 Under every interleaving of two teach calls that ingest relations   *)
(* with different keys, the final graph holds the statements of both       *)
(* calls: the read-modify-write of the graph text in one call does not     *)
(* lose the update of the other.                                           *)
(***************************************************************************)
RelKeys(h) ==
    { << threads[h].relations[i].meaning, threads[h].relations[i].sub_meaning,
         threads[h].relations[i].variable >> :
         i \in 1..Len(threads[h].relations) }

C18_NoLostUpdate ==
    (/\ Completed("teach1") /\ Completed("teach2")
     /\ threads["teach1"].op = "maintain_graph"
     /\ threads["teach2"].op = "maintain_graph"
     /\ RelKeys("teach1") \cap RelKeys("teach2") = {})
    => \A h \in Teachers : \A n \in 1..Len(threads[h].made) :
          \E i \in 1..Len(text_graph) :
             Key(text_graph[i]) = << threads[h].made[n][1],
                                     threads[h].made[n][2],
                                     threads[h].made[n][3] >>

(***************************************************************************)
(* C19 A query that runs next to a teach call reads the graph either as it *)
(* was before the teach call began or as it is after the teach call ended, *)
(* never a value in between (an emptied graph, a graph with some of the    *)
(* relations of the call, an unpruned graph).                              *)
(***************************************************************************)
C19_QueryReadsWholeGraph ==
    (Done("query") /\ Done("teach1")) =>
        \/ threads["query"].seen = threads["teach1"].old_rgl
        \/ threads["query"].seen = threads["teach1"].new_rgl

(***************************************************************************)
(* C21 On every graph, the empty one and one with tokens the reverse map   *)
(* does not hold included, process_query ends without an error, returns    *)
(* the pair of "no recommendation" exactly when no statement is a          *)
(* candidate, and returns it on a non-empty graph when the query is        *)
(* contained in no main term.                                              *)
(***************************************************************************)
C21_NoMatchNeverError ==
    call.op = "process_query" =>
        /\ call.status = "ok"
        /\ call.answer = NoAnswer
               <=> Candidates(call.query, call.context) = {}
        /\ (/\ text_graph # << >>
            /\ \A i \in 1..Len(text_graph) :
                   ~Contains(Lower(call.query),
                             ResolvedLower(text_graph[i].main)))
           => call.answer = NoAnswer

(***************************************************************************)
(* C22 Starting from an empty model, after a teach call has taught the     *)
(* relation {m, s, v, p, c} (p a probability), a query whose text is       *)
(* contained in m and whose context is contained in c, case disregarded,   *)
(* returns the recommendation that names v and the explanation that cites  *)
(* s, p and c.                                                             *)
(***************************************************************************)
\* the answer that names v and cites s, p and c
Named(rel) ==
    [found |-> TRUE,
     variable |-> Spell(rel.variable),
     sub_meaning |-> Spell(rel.sub_meaning),
     probability |-> Repr(ParseFloat(rel.probability)),
     condition |-> Spell(rel.condition)]

\* the query text is contained in m and the context in c
AsksFor(rel, query, context) ==
    /\ Contains(Lower(query), Lower(Spell(rel.meaning)))
    /\ Contains(Lower(context), Lower(Spell(rel.condition)))

\* the first call was a teach call that completed, the next one is a query
QueryAfterFirstTeach ==
    /\ nops = 1
    /\ call.op \in IngestOps
    /\ call.status = "ok"
    /\ call'.op = "process_query"

C22_TaughtRelationAnswered ==
    [][QueryAfterFirstTeach =>
          \A n \in 1..Len(call.relations) :
             (/\ InRange(ParseFloat(call.relations[n].probability))
              /\ AsksFor(call.relations[n], call'.query, call'.context))
             => call'.answer = Named(call.relations[n])]_vars

(***************************************************************************)
(* C22, amended: ... when the statement of the relation is in the graph    *)
(* after the teach call and is, among the candidates of the query, the     *)
(* first of the greatest probability.                                      *)
(***************************************************************************)
\* record i of the graph is the statement of the relation
StatementOf(i, rel) ==
    /\ Matches(text_graph[i])
    /\ text_graph[i].main = token_dict[rel.meaning]
    /\ text_graph[i].sub = token_dict[rel.sub_meaning]
    /\ text_graph[i].variable = token_dict[rel.variable]
    /\ text_graph[i].condition = token_dict[rel.condition]
    /\ ParseFloat(text_graph[i].prob) = ParseFloat(rel.probability)

FirstMaximum(i, cand) ==
    /\ i \in cand
    /\ \A j \in cand :
          /\ ParseFloat(text_graph[j].prob) <= ParseFloat(text_graph[i].prob)
          /\ j < i => ParseFloat(text_graph[j].prob)
                          < ParseFloat(text_graph[i].prob)

C22_TaughtRelationAnsweredWhenTop ==
    [][QueryAfterFirstTeach =>
          \A n \in 1..Len(call.relations) : \A i \in 1..Len(text_graph) :
             (/\ InRange(ParseFloat(call.relations[n].probability))
              /\ AsksFor(call.relations[n], call'.query, call'.context)
              /\ StatementOf(i, call.relations[n])
              /\ FirstMaximum(i, Candidates(call'.query, call'.context)))
             => call'.answer = Named(call.relations[n])]_vars

\* the model taught "justica" (two relations of that meaning) and asked
\* (justica, crise): the answer names necessidade and cites justica
\* distributiva, 0.9 and crise
C22_Witness ==
    /\ nops = 2
    /\ call.op = "process_query"
    /\ call.query = Spell("justica")
    /\ call.context = Spell("crise")
    /\ Len(text_graph) >= 2
    /\ call.answer =
          Named(Relation("justica", "justica distributiva", "necessidade",
                         Txt(FALSE, 90, 1), "crise"))

(***************************************************************************)
(* C23 When the extractor yields no relation for a teach call, the graph   *)
(* text after the call is the graph text before it, on both teach routes   *)
(* (maintain_graph and convert_raw_data).                                  *)
(***************************************************************************)
C23_NoRelationsKeepsGraph ==
    (call.op \in IngestOps /\ call.relations = << >>) =>
        text_graph = call.before

(***************************************************************************)
(* C25 A teach call deletes nothing but what the prune drops: every        *)
(* (main, sub, variable) key of a statement that is in the graph before    *)
(* the call, and whose node does not go over max_edges_per_node, is still  *)
(* the key of a statement after the call, on both routes of app.teach.     *)
(***************************************************************************)
C25_KeysSurviveTeach ==
    call.op \in IngestOps =>
        \A i \in 1..Len(call.before) :
           (/\ Matches(call.before[i])
            /\ Len(EdgesOf(call.before[i].main, Distinct(call.before)))
                   <= max_edges_per_node
            /\ Len(EdgesOf(call.before[i].main, Distinct(call.updated)))
                   <= max_edges_per_node)
           => \E j \in 1..Len(text_graph) :
                 /\ Matches(text_graph[j])
                 /\ Key(text_graph[j]) = Key(call.before[i])

(***************************************************************************)
(* C24 A record of the graph text that the statement grammar               *)
(* DIGITS:DIGITS>DIGITS(pFLOAT,DIGITS) does not describe never aborts an   *)
(* ingest: the ingest ends as it ends on the graph without such records,   *)
(* and when it completes the graph is the one it leaves there, the         *)
(* malformed records dropped and the statements treated as if those        *)
(* records were absent.                                                    *)
(***************************************************************************)
WellFormed(st) == Matches(st) /\ IsFloat(st.prob)

\* the status and the graph an ingest ends with, from what its loop left
Outcome(r) ==
    IF _validate_assertiveness(r.graph)
    THEN [status |-> "ValueError", graph |-> << >>]
    ELSE [status |-> "ok", graph |-> _optimize_text(r.graph)]

C24_MalformedRecordSkipped ==
    [][(/\ call'.op = "maintain_graph"
        /\ call'.status # "skipped"
        /\ \E i \in 1..Len(text_graph) : ~WellFormed(text_graph[i]))
       => \E r \in MaintainLoop(Reg, SelectSeq(text_graph, WellFormed),
                                 call'.relations, 1) :
             /\ call'.status = Outcome(r).status
             /\ call'.status = "ok" => text_graph' = Outcome(r).graph]_vars

(***************************************************************************)
(* C26 Deduplicate-and-prune is idempotent.  Whatever graph text           *)
(* _optimize_text is applied to, the text it leaves has no two             *)
(* byte-identical records, the records of a node that is not pruned stand  *)
(* in the order of their first occurrences, a second application gives     *)
(* exactly that text again, and applied right after itself it changes      *)
(* nothing.                                                                *)
(***************************************************************************)
\* the first index of a record in a sequence that holds it
FirstIndex(st, s) ==
    CHOOSE i \in 1..Len(s) : s[i] = st /\ \A j \in 1..(i - 1) : s[j] # st

NoRepeats(s) == \A a, b \in 1..Len(s) : s[a] = s[b] => a = b

C26_OptimizeIdempotent ==
    [][call'.op = "_optimize_text" =>
          /\ NoRepeats(text_graph')
          /\ \A a \in 1..Len(text_graph') :
                 \E i \in 1..Len(text_graph) : text_graph[i] = text_graph'[a]
          /\ \A a, b \in 1..Len(text_graph') :
                 (/\ a < b
                  /\ text_graph'[a].main = text_graph'[b].main
                  /\ Len(EdgesOf(text_graph'[a].main, Dedup(text_graph)))
                         <= max_edges_per_node)
                 => FirstIndex(text_graph'[a], text_graph)
                       < FirstIndex(text_graph'[b], text_graph)
          /\ _optimize_text(text_graph') = text_graph'
          /\ call.op = "_optimize_text" => text_graph' = text_graph]_vars

\* _optimize_text applied twice to a restored text with a repeated record:
\* the first application removed the repetition, the second changed nothing
C26_Witness ==
    /\ nops = 3
    /\ call.op = "_optimize_text"
    /\ call.before = text_graph
    /\ ~NoRepeats(file[1].text_graph)
    /\ NoRepeats(text_graph)
    /\ text_graph # << >>
    /\ \A i \in 1..Len(file[1].text_graph) :
          \E a \in 1..Len(text_graph) : text_graph[a] = file[1].text_graph[i]

(***************************************************************************)
(* C27 Pruning a compliant graph is a no-op: on a graph of well-formed     *)
(* statements in which no node has more than max_edges_per_node statements *)
(* and no record is repeated, _optimize_text leaves the graph text as it   *)
(* is, the order of the statements included.                               *)
(***************************************************************************)
Compliant(s) ==
    /\ \A i \in 1..Len(s) :
          WellFormed(s[i]) /\ InRange(ParseFloat(s[i].prob))
    /\ NoRepeats(s)
    /\ \A node \in Nodes(s) : Fanout(node, s) <= max_edges_per_node

C27_CompliantUnchanged ==
    [][(call'.op = "_optimize_text" /\ Compliant(text_graph)) =>
          text_graph' = text_graph]_vars

(***************************************************************************)
(* C28 Validation is discovery only: on a graph whose probabilities are    *)
(* all in range _validate_assertiveness ends without an error, also when a *)
(* node has more than max_edges_per_node statements, and in every case it  *)
(* leaves the graph text, both token maps and the counter as they were.    *)
(***************************************************************************)
C28_ValidateOnlyDiscovers ==
    [][call'.op = "_validate_assertiveness" =>
          /\ UNCHANGED <<text_graph, token_dict, reverse_token_dict,
                         next_token_id>>
          /\ (\A i \in 1..Len(text_graph) :
                  /\ IsFloat(text_graph[i].prob)
                  /\ InRange(ParseFloat(text_graph[i].prob)))
             => call'.status = "ok"]_vars

\* a validation that ended without an error on a graph in which a node is
\* over the limit, and left that graph
C28_Witness ==
    /\ call.op = "_validate_assertiveness"
    /\ call.status = "ok"
    /\ text_graph = call.before
    /\ \E node \in Nodes(text_graph) :
          Fanout(node, text_graph) > max_edges_per_node

(***************************************************************************)
(* C29 Starting from the empty graph, after any sequence of maintain_graph *)
(* calls made one at a time, no two statements of the graph have the same  *)
(* (main, sub, variable) key.                                              *)
(***************************************************************************)
C29_NoDuplicateKeys ==
    \A a, b \in 1..Len(text_graph) :
        (/\ Matches(text_graph[a])
         /\ Matches(text_graph[b])
         /\ Key(text_graph[a]) = Key(text_graph[b]))
        => a = b

\* a later maintain_graph call met the key of its relation in a graph of
\* several statements and merged: the key is there once, with the blend
C29_Witness ==
    /\ nops >= 2
    /\ MaintainedOne
    /\ call.status = "ok"
    /\ Len(text_graph) >= 2
    /\ \E i \in 1..Len(call.before) :
          /\ Matches(call.before[i])
          /\ Key(call.before[i]) = RelKey(call.relations[1])
          /\ call.updated[i].prob # call.before[i].prob
    /\ KeyCount(RelKey(call.relations[1]), text_graph) = 1

(***************************************************************************)
(* C30 maintain_graph is gated by _needs_update: for a raw text that       *)
(* contains none of the keywords crise, 2025, auxilio, temperatura the     *)
(* call leaves the graph text, both token maps and the counter as they     *)
(* were, also when the extractor would produce relations for the text (a   *)
(* text that only mentions justica).                                       *)
(***************************************************************************)
C30_GatedByNeedsUpdate ==
    [][(/\ call'.op = "maintain_graph"
        /\ call'.raw \cap {"crise", "2025", "auxilio", "temperatura"} = {})
       => UNCHANGED <<text_graph, token_dict, reverse_token_dict,
                      next_token_id>>]_vars

\* maintain_graph of a text that only mentions justica, for which the
\* extractor has two relations, on a model that was taught before: no
\* term of those relations was interned
C30_Witness ==
    /\ call.op = "maintain_graph"
    /\ call.raw = {"justica"}
    /\ nops >= 2
    /\ text_graph # << >>
    /\ text_graph = call.before
    /\ Len(Extract(extractor, call.raw)) = 2
    /\ "justica" \notin DOMAIN token_dict

====
